---- MODULE Spec2Model ----
(***************************************************************************)
(* The bundler RPC contract (src/src/bundler/utils/types.ts) and the       *)
(* client layer that submits user operations through it                    *)
(* (src/src/sdk/clients/decorators/erc7579/uninstallModules.ts).           *)
(*                                                                         *)
(* ContractSpec: a client attempts requests; the contract (the type        *)
(*   BundlerRpcSchema) decides whether the request is one of its methods   *)
(*   with a parameter tuple of the declared type; a bundler answers every  *)
(*   issued request with a response the contract admits.                   *)
(* Spec: callers invoke uninstallModules concurrently; each invocation     *)
(*   hands one user operation to sendUserOperation and returns its         *)
(*   promise.                                                              *)
(***************************************************************************)
EXTENDS Integers, Sequences, FiniteSets, TLC

VARIABLES
  \* ---- contract layer
  req,          \* the last request a client attempted, with the contract's verdict
  reply,        \* the bundler's response to req, once it has answered
  decoded,      \* the numbers the client reads out of reply's numeric fields
  ops,          \* bundler: lifecycle of each operation hash
  receipts,     \* bundler: the receipt of each mined operation
  overrideSeen, \* history: an estimate carrying a StateOverride was issued
  \* ---- client layer
  clientAccount, \* client.account
  pc,            \* position of each invocation of uninstallModules
  call,          \* the parameters of each invocation
  sent,          \* the user operations handed to sendUserOperation, in order
  response,      \* the bundler's response to each invocation's request
  outcome,       \* what each invocation returned or threw
  \* ---- createNexusClient
  npc,           \* position of the call of createNexusClient
  nparams,       \* its parameters
  accountArgs,   \* what toNexusAccount was called with
  nexusAccount,  \* the account toNexusAccount resolved to
  bundlerArgs,   \* what createBicoBundlerClient was called with
  nerror         \* the error createNexusClient threw

contractVars == <<req, reply, decoded, ops, receipts, overrideSeen>>
clientVars == <<clientAccount, pc, call, sent, response, outcome>>
nexusVars == <<npc, nparams, accountArgs, nexusAccount, bundlerArgs, nerror>>
vars == <<req, reply, decoded, ops, receipts, overrideSeen,
          clientAccount, pc, call, sent, response, outcome,
          npc, nparams, accountArgs, nexusAccount, bundlerArgs, nerror>>

\* ---------------------------------------------------------------- bounds
NumHashes == 1
MaxModules == 1
MaxNonce == 0
MaxBatch == 2
MaxIndex == 1

Hashes == 1..NumHashes

\* An optional value: <<>> when absent (undefined), <<v>> when present.
Absent == <<>>
Some(v) == <<v>>

\* ------------------------------------------------- the UserOperation type
GasLimitFields == {"callGasLimit", "preVerificationGas", "verificationGasLimit"}

UserOperationFields ==
  {"sender", "nonce", "initCode", "callData", "callGasLimit",
   "verificationGasLimit", "preVerificationGas", "maxFeePerGas",
   "maxPriorityFeePerGas", "paymasterAndData", "signature"}

\* An object type: the keys it requires and the keys it allows to be absent.
UserOperationStruct == [required |-> UserOperationFields, optional |-> {}]

\* viem's PartialBy<T, K>: the keys K of T become optional.
PartialBy(T, keys) ==
  [required |-> T.required \ keys,
   optional |-> T.optional \cup (keys \cap T.required)]

EstimateKeysTooFew == {"callGasLimit", "preVerificationGas"}

EstimateKeys == {"callGasLimit", "preVerificationGas", "verificationGasLimit"}

\* The first parameter of eth_estimateUserOperationGas.
PartialUserOperation == PartialBy(UserOperationStruct, EstimateKeys)

\* ------------------------------------------------------ BundlerRpcSchema
Param(name, type, optional) ==
  [name |-> name, type |-> type, optional |-> optional]

Entry(method, parameters, returnType) ==
  [Method |-> method, Parameters |-> parameters, ReturnType |-> returnType]

SendEntry ==
  Entry("eth_sendUserOperation",
        <<Param("userOperation", "UserOperationStruct", FALSE),
          Param("entryPointAddress", "ENTRYPOINT_ADDRESS_V06_TYPE", FALSE)>>,
        {"Hash"})

EstimateEntry ==
  Entry("eth_estimateUserOperationGas",
        <<Param("userOperation", "PartialUserOperation", FALSE),
          Param("entryPointAddress", "ENTRYPOINT_ADDRESS_V06_TYPE", FALSE),
          Param("stateOverrides", "StateOverrides", TRUE)>>,
        {"EstimateResult"})

OtherEntries ==
  <<Entry("eth_supportedEntryPoints", <<>>, {"AddressList"}),
    Entry("eth_chainId", <<>>, {"Hex"}),
    Entry("eth_getUserOperationByHash",
          <<Param("hash", "Hash", FALSE)>>, {"UserOperationByHash"}),
    Entry("eth_getUserOperationReceipt",
          <<Param("hash", "Hash", FALSE)>>, {"UserOpReceipt"}),
    Entry("biconomy_getGasFeeValues", <<>>, {"GasFeeValues"}),
    Entry("biconomy_getUserOperationStatus",
          <<Param("userOpHash", "Hash", FALSE)>>, {"UserOpStatus"})>>

\* A ninth method slipped into the schema.
SchemaWithExtraMethod ==
  <<SendEntry, EstimateEntry>> \o OtherEntries \o
  <<Entry("eth_getBalance", <<Param("hash", "Hash", FALSE)>>, {"Hex"})>>

\* The optional StateOverrides declared on the submission path as well.
SchemaWithOverrideOnSend ==
  <<Entry("eth_sendUserOperation",
          <<Param("userOperation", "UserOperationStruct", FALSE),
            Param("entryPointAddress", "ENTRYPOINT_ADDRESS_V06_TYPE", FALSE),
            Param("stateOverrides", "StateOverrides", TRUE)>>,
          {"Hash"}),
    EstimateEntry>> \o OtherEntries

BundlerRpcSchema == <<SendEntry, EstimateEntry>> \o OtherEntries

SchemaMethods == {BundlerRpcSchema[i].Method : i \in DOMAIN BundlerRpcSchema}

SchemaEntry(m) ==
  BundlerRpcSchema[CHOOSE i \in DOMAIN BundlerRpcSchema :
                     BundlerRpcSchema[i].Method = m]

\* ------------------------------------------------------ parameter values
\* Fields a caller may leave out of a user operation it passes.
DroppableFields == GasLimitFields

UserOp(missing) == [kind |-> "UserOperation", missing |-> missing, hash |-> 0]
EntryPointV06 == [kind |-> "EntryPoint", missing |-> {}, hash |-> 0]
Override == [kind |-> "StateOverrides", missing |-> {}, hash |-> 0]
HashParam(h) == [kind |-> "Hash", missing |-> {}, hash |-> h]

UserOps == {UserOp(ms) : ms \in SUBSET DroppableFields}

\* The parameter tuples a caller may try.
ParamTuples ==
  {<<>>}
  \cup {<<HashParam(h)>> : h \in Hashes}
  \cup {<<u, EntryPointV06>> : u \in UserOps}
  \cup {<<u, EntryPointV06, Override>> : u \in UserOps}

\* The method names a caller may try: the schema's and one that is not.
TriedMethods ==
  {"eth_sendUserOperation", "eth_estimateUserOperationGas",
   "eth_supportedEntryPoints", "eth_chainId", "eth_getUserOperationByHash",
   "eth_getUserOperationReceipt", "biconomy_getGasFeeValues",
   "biconomy_getUserOperationStatus", "eth_getBalance"}

\* Whether value v is assignable to the parameter type named t.
HasType(v, t) ==
  CASE t = "UserOperationStruct" ->
         v.kind = "UserOperation" /\ v.missing \cap UserOperationStruct.required = {}
    [] t = "PartialUserOperation" ->
         v.kind = "UserOperation" /\ v.missing \cap PartialUserOperation.required = {}
    [] t = "ENTRYPOINT_ADDRESS_V06_TYPE" -> v.kind = "EntryPoint"
    [] t = "StateOverrides" -> v.kind = "StateOverrides"
    [] t = "Hash" -> v.kind = "Hash"
    [] OTHER -> FALSE

\* Whether the tuple params is assignable to the Parameters tuple type P:
\* position by position, trailing optional elements may be left out.
TupleConforms(params, P) ==
  /\ Len(params) <= Len(P)
  /\ \A i \in 1..Len(params) : HasType(params[i], P[i].type)
  /\ \A i \in (Len(params) + 1)..Len(P) : P[i].optional

\* The contract's verdict on a request: issued iff the method is one of the
\* schema's and the parameters are of that method's Parameters type.
Conforms(m, params) ==
  /\ m \in SchemaMethods
  /\ TupleConforms(params, SchemaEntry(m).Parameters)

\* ------------------------------------------------------- response shapes
\* Strings on the wire are sequences of characters.
DecStrings == {<<"1", "0">>, <<"2", "5">>}
HexStrings == {<<"0", "x", "1", "0">>, <<"0", "x", "f", "f">>}

\* JsonRpcError: code and message (data is opaque and left out).
ErrorEnvelopes ==
  {[code |-> "-32602", message |-> "Invalid params"],
   [code |-> "-32000", message |-> "AA23 reverted"]}

\* The values of UserOpReceipt.reason: any string, the empty one included.
ReasonStrings == {"", "execution reverted"}

\* A mix-up with TStatus ("success" | "reverted").
UserOpReceiptWithStatus ==
  [userOpHash : Hashes, success : {"success", "reverted"}, reason : ReasonStrings]

\* UserOpReceipt, reduced to the hash and to success and reason, the two
\* fields that depend on the outcome; each field ranges over its whole type.
UserOpReceipt ==
  [userOpHash : Hashes, success : {"true", "false"}, reason : ReasonStrings]

\* The return type of eth_estimateUserOperationGas: callGasLimit may be absent.
EstimateResults ==
  {[f \in fs |-> d[f]] :
     fs \in {{"preVerificationGas", "verificationGasLimit",
              "maxPriorityFeePerGas", "maxFeePerGas"},
             {"preVerificationGas", "verificationGasLimit", "callGasLimit",
              "maxPriorityFeePerGas", "maxFeePerGas"}},
     d \in [{"preVerificationGas", "verificationGasLimit", "callGasLimit",
             "maxPriorityFeePerGas", "maxFeePerGas"} -> DecStrings]}

GasFeeValues == [maxPriorityFeePerGas : DecStrings, maxFeePerGas : DecStrings]

\* The declared type of every field that carries a number on the wire.
WireTypeAllHex(f) == "Hex"

WireType(f) ==
  CASE f \in {"preVerificationGas", "verificationGasLimit", "callGasLimit",
              "maxPriorityFeePerGas", "maxFeePerGas"} -> "string"
    [] f \in {"chainId", "blockNumber"} -> "Hex"

NumericFields ==
  {"preVerificationGas", "verificationGasLimit", "callGasLimit",
   "maxPriorityFeePerGas", "maxFeePerGas", "chainId", "blockNumber"}

\* ------------------------------------------------------ reading numbers
DigitValue(c) ==
  CASE c = "0" -> 0 [] c = "1" -> 1 [] c = "2" -> 2 [] c = "3" -> 3
    [] c = "4" -> 4 [] c = "5" -> 5 [] c = "6" -> 6 [] c = "7" -> 7
    [] c = "8" -> 8 [] c = "9" -> 9 [] c = "a" -> 10 [] c = "b" -> 11
    [] c = "c" -> 12 [] c = "d" -> 13 [] c = "e" -> 14 [] c = "f" -> 15
    [] OTHER -> 16

RECURSIVE DigitsValue(_, _)
\* The number the digits s spell in the given base.
DigitsValue(s, base) ==
  IF s = <<>> THEN 0
  ELSE DigitsValue(SubSeq(s, 1, Len(s) - 1), base) * base + DigitValue(s[Len(s)])

NaN == 0 - 1

\* A decimal string read in base 10; not a number when a character is no
\* decimal digit.
ParseDecimal(s) ==
  IF s # <<>> /\ \A i \in 1..Len(s) : DigitValue(s[i]) < 10
  THEN DigitsValue(s, 10) ELSE NaN

\* A 0x-prefixed string read in base 16; not a number without the prefix.
ParseHex(s) ==
  IF /\ Len(s) > 2
     /\ s[1] = "0"
     /\ s[2] = "x"
     /\ \A i \in 3..Len(s) : DigitValue(s[i]) < 16
  THEN DigitsValue(SubSeq(s, 3, Len(s)), 16) ELSE NaN

\* The number a client reads out of field f.
ParseQuantity(f, s) ==
  IF WireType(f) = "Hex" THEN ParseHex(s) ELSE ParseDecimal(s)

\* --------------------------------------------------------------- bundler
NoRequest == [method |-> "", params |-> <<>>, verdict |-> "none"]
NoReply == [kind |-> "none", code |-> "", message |-> "", type |-> "", value |-> <<>>]
NoNumbers == [f \in {} |-> 0]

ErrorReply(e) ==
  [kind |-> "error", code |-> e.code, message |-> e.message, type |-> "", value |-> <<>>]

ResultReply(t, v) ==
  [kind |-> "result", code |-> "", message |-> "", type |-> t, value |-> v]

InFlight == req.verdict = "issued" /\ reply.kind = "none"

\* The hash a request is about (0 when it has no hash parameter).
HashOf(r) ==
  IF Len(r.params) = 1 /\ r.params[1].kind = "Hash" THEN r.params[1].hash ELSE 0

Mined(h) == h \in Hashes /\ ops[h] = "mined"

\* The values of type t a bundler can answer r with, given what it knows
\* about r's hash. "null" is the not-found result; no receipt exists, and no
\* inclusion data, before the operation is mined.
ValuesOfType(t, r) ==
  LET h == HashOf(r) IN
  CASE t = "Hash" -> Hashes
    [] t = "EstimateResult" -> EstimateResults
    [] t = "AddressList" -> {<<EntryPointV06>>}
    [] t = "Hex" -> {[chainId |-> x] : x \in HexStrings}
    [] t = "GasFeeValues" -> GasFeeValues
    [] t = "UserOperationByHash" ->
         IF Mined(h) THEN {[blockNumber |-> x] : x \in HexStrings} ELSE {}
    [] t = "UserOpReceipt" ->
         IF Mined(h) THEN {receipts[h][1]} ELSE {}
    [] t = "UserOpStatus" ->
         IF Mined(h)
         THEN {[state |-> "CONFIRMED", userOperationReceipt |-> receipts[h]]}
         ELSE {[state |-> "PENDING", userOperationReceipt |-> Absent]}
    [] t = "null" -> IF Mined(h) THEN {} ELSE {<<>>}
    [] OTHER -> {}

\* Every response the contract admits for request r: an error envelope, or
\* a result of one of the members of the method's ReturnType.
Replies(r) ==
  IF r.method \notin SchemaMethods THEN {}
  ELSE {ErrorReply(e) : e \in ErrorEnvelopes}
       \cup UNION {{ResultReply(t, v) : v \in ValuesOfType(t, r)} :
                     t \in SchemaEntry(r.method).ReturnType}

\* The numeric fields of a response, read by the client.
Decode(r) ==
  IF r.kind = "result" /\ r.type \in {"EstimateResult", "GasFeeValues", "Hex",
                                      "UserOperationByHash"}
  THEN [f \in DOMAIN r.value \cap NumericFields |-> ParseQuantity(f, r.value[f])]
  ELSE NoNumbers

CarriesOverride(params) ==
  \E i \in 1..Len(params) : params[i].kind = "StateOverrides"

\* A client tries the request (m, params): it is issued iff the contract
\* types it.
Request(m, params) ==
  /\ ~InFlight
  /\ req' = [method |-> m, params |-> params,
             verdict |-> IF Conforms(m, params) THEN "issued" ELSE "refused"]
  /\ reply' = NoReply
  /\ decoded' = NoNumbers
  /\ overrideSeen' = (overrideSeen \/ (Conforms(m, params) /\ CarriesOverride(params)))
  /\ UNCHANGED <<ops, receipts>>
  /\ UNCHANGED clientVars
  /\ UNCHANGED nexusVars

\* The bundler answers the request in flight.
Reply(r) ==
  /\ InFlight
  /\ r \in Replies(req)
  /\ reply' = r
  /\ decoded' = Decode(r)
  /\ ops' = IF r.kind = "result" /\ r.type = "Hash" /\ ops[r.value] = "unknown"
            THEN [ops EXCEPT ![r.value] = "pending"]
            ELSE ops
  /\ UNCHANGED <<req, receipts, overrideSeen>>
  /\ UNCHANGED clientVars
  /\ UNCHANGED nexusVars

\* The bundler includes a pending operation and creates its receipt.
Mine(h, rc) ==
  /\ ops[h] = "pending"
  /\ rc \in UserOpReceipt
  /\ rc.userOpHash = h
  /\ ops' = [ops EXCEPT ![h] = "mined"]
  /\ receipts' = [receipts EXCEPT ![h] = Some(rc)]
  /\ UNCHANGED <<req, reply, decoded, overrideSeen>>
  /\ UNCHANGED clientVars
  /\ UNCHANGED nexusVars

\* ---------------------------------------------------------- client layer
\* The concurrent invocations of uninstallModules.
Callers == {"c1", "c2"}

ParamAccount == "0xA1"
ClientAccount == "0xC1"

\* Module (type, address, optional data).
ModulePool ==
  {[type |-> "validator", address |-> "0xab01", data |-> Absent],
   [type |-> "executor", address |-> "0xcd02", data |-> Some("0xdead")]}

RECURSIVE SeqsUpTo(_, _)
SeqsUpTo(S, n) ==
  IF n = 0 THEN {<<>>}
  ELSE SeqsUpTo(S, n - 1)
       \cup {Append(q, x) : q \in {r \in SeqsUpTo(S, n - 1) : Len(r) = n - 1}, x \in S}

\* UninstallModulesParameters: account, modules and the optional gas settings.
ParametersUpTo(len) ==
  {p \in [account : {Absent, Some(ParamAccount)},
          modules : SeqsUpTo(ModulePool, len),
          maxFeePerGas : {Absent, Some(2)},
          maxPriorityFeePerGas : {Absent, Some(1)},
          nonce : {Absent} \cup {Some(n) : n \in 0..MaxNonce}] :
     (p.maxFeePerGas = Absent) = (p.maxPriorityFeePerGas = Absent)}

UninstallModulesParameters == ParametersUpTo(MaxModules)

\* The parameters of a single invocation with a longer list of modules.
BatchParameters == ParametersUpTo(MaxBatch)

NoCall ==
  [account |-> Absent, modules |-> <<>>, maxFeePerGas |-> Absent,
   maxPriorityFeePerGas |-> Absent, nonce |-> Absent]

\* parseModuleTypeId: the ERC-7579 module type ids.
parseModuleTypeId(type) ==
  CASE type = "validator" -> 1
    [] type = "executor" -> 2
    [] type = "fallback" -> 3
    [] type = "hook" -> 4

\* viem's getAddress: the checksummed spelling of an address.
getAddress(a) ==
  CASE a = "0xab01" -> "0xAb01"
    [] a = "0xcd02" -> "0xCD02"
    [] OTHER -> a

\* A call addressed to the module instead of the account.
UninstallCallToModule(account, m) ==
  [to |-> m.address,
   value |-> 0,
   data |-> [functionName |-> "uninstallModule",
             args |-> <<parseModuleTypeId(m.type), getAddress(m.address),
                        IF m.data = Absent THEN "0x" ELSE m.data[1]>>]]

\* One call of the user operation: uninstallModule(moduleTypeId, module,
\* deInitData) on the account itself. encodeFunctionData is kept structured.
UninstallCall(account, m) ==
  [to |-> account,
   value |-> 0,
   data |-> [functionName |-> "uninstallModule",
             args |-> <<parseModuleTypeId(m.type), getAddress(m.address),
                        IF m.data = Absent THEN "0x" ELSE m.data[1]>>]]

\* The argument uninstallModules passes to sendUserOperation.
UserOperationOf(i, p, account) ==
  [caller |-> i,
   account |-> account,
   calls |-> [k \in 1..Len(p.modules) |-> UninstallCall(account, p.modules[k])],
   maxFeePerGas |-> p.maxFeePerGas,
   maxPriorityFeePerGas |-> p.maxPriorityFeePerGas,
   nonce |-> p.nonce]

\* A client that drops a submission whose (sender, nonce) it has already sent.
sendUserOperationDeduplicated(log, op) ==
  IF \E k \in 1..Len(log) : log[k].account = op.account /\ log[k].nonce = op.nonce
  THEN log ELSE Append(log, op)

\* The sendUserOperation action: the operation goes out as one
\* eth_sendUserOperation request.
sendUserOperation(log, op) == Append(log, op)

\* SendUserOpResponse: a result, or the error if the request failed; no
\* response at all is a transport failure.
SendUserOpResponses ==
  {[kind |-> "result", result |-> h, code |-> "", message |-> ""] : h \in Hashes}
  \cup {[kind |-> "error", result |-> 0, code |-> e.code, message |-> e.message] :
          e \in ErrorEnvelopes}
  \cup {[kind |-> "transportFailure", result |-> 0, code |-> "", message |-> ""]}

NoResponse == [kind |-> "none", result |-> 0, code |-> "", message |-> ""]
NoOutcome == [kind |-> "none", name |-> "", result |-> 0, code |-> "", message |-> ""]

Resolved(h) ==
  [kind |-> "resolved", name |-> "", result |-> h, code |-> "", message |-> ""]
Rejected(name, code, message) ==
  [kind |-> "rejected", name |-> name, result |-> 0, code |-> code, message |-> message]

\* A layer that catches the error and resolves all the same.
SettledSwallowingErrors(resp) ==
  CASE resp.kind = "result" -> Resolved(resp.result)
    [] resp.kind = "error" -> Resolved(0)
    [] resp.kind = "transportFailure" -> Rejected("TransportError", "", "")

\* uninstallModules returns the promise of sendUserOperation: what the
\* caller observes is how that promise settles.
Settled(resp) ==
  CASE resp.kind = "result" -> Resolved(resp.result)
    [] resp.kind = "error" -> Rejected("RpcError", resp.code, resp.message)
    [] resp.kind = "transportFailure" -> Rejected("TransportError", "", "")

\* A layer that sends the same operation again when the first try failed.
afterSettledRetrying(log, op, resp) ==
  IF resp.kind = "result" THEN log ELSE Append(log, op)

\* Nothing follows the returned promise: no catch, no second request.
afterSettled(log, op, resp) == log

SentBy(i) == {k \in 1..Len(sent) : sent[k].caller = i}

\* The account an invocation resolves: its own, else the client's.
SenderOf(i) == IF call[i].account # Absent THEN call[i].account ELSE clientAccount

\* A layer that lets the client's account win over the parameters'.
account_ClientFirst(p) ==
  IF clientAccount # Absent THEN clientAccount ELSE p.account

\* const { account: account_ = client.account } = parameters
account_(p) == IF p.account # Absent THEN p.account ELSE clientAccount

\* uninstallModules up to the call of sendUserOperation.
uninstallModules(i, p) ==
  /\ pc[i] = "idle"
  /\ call' = [call EXCEPT ![i] = p]
  /\ IF account_(p) = Absent
       THEN /\ outcome' = [outcome EXCEPT ![i] = Rejected("AccountNotFoundError", "", "")]
            /\ pc' = [pc EXCEPT ![i] = "done"]
            /\ UNCHANGED sent
       ELSE /\ sent' = sendUserOperation(sent, UserOperationOf(i, p, account_(p)[1]))
            /\ pc' = [pc EXCEPT ![i] = "awaiting"]
            /\ UNCHANGED outcome
  /\ UNCHANGED <<clientAccount, response>>
  /\ UNCHANGED contractVars
  /\ UNCHANGED nexusVars

\* The request of invocation i is answered (or fails in transport) and the
\* returned promise settles.
Settle(i, resp) ==
  /\ pc[i] = "awaiting"
  /\ resp \in SendUserOpResponses
  /\ response' = [response EXCEPT ![i] = resp]
  /\ outcome' = [outcome EXCEPT ![i] = Settled(resp)]
  /\ sent' = afterSettled(sent, UserOperationOf(i, call[i], SenderOf(i)[1]), resp)
  /\ pc' = [pc EXCEPT ![i] = "done"]
  /\ UNCHANGED <<clientAccount, call>>
  /\ UNCHANGED contractVars
  /\ UNCHANGED nexusVars

ClientInit ==
  /\ clientAccount \in {Absent, Some(ClientAccount)}
  /\ pc = [i \in Callers |-> "idle"]
  /\ call = [i \in Callers |-> NoCall]
  /\ sent = <<>>
  /\ response = [i \in Callers |-> NoResponse]
  /\ outcome = [i \in Callers |-> NoOutcome]

\* No invocation of the client layer takes part.
ClientIdle ==
  /\ clientAccount = Absent
  /\ pc = [i \in Callers |-> "idle"]
  /\ call = [i \in Callers |-> NoCall]
  /\ sent = <<>>
  /\ response = [i \in Callers |-> NoResponse]
  /\ outcome = [i \in Callers |-> NoOutcome]

\* ------------------------------------------------------ createNexusClient
Signers == {"0xS1", "0xS2"}

ExecutionTransport == "http(rpcUrl)"
BundlerTransport == "http(bundlerUrl)"

\* An account object, Nexus or other.
Account(address, chain, signer, index) ==
  [address |-> address, chain |-> chain, signer |-> signer, index |-> index]

\* An account the caller puts into the configuration.
CallerAccount == Account(<<"0", "x", "c", "a">>, "", "", 0)

\* NexusClientConfig: transport, bundlerTransport and signer are required,
\* every other property is optional.
NexusClientConfig ==
  {p \in [client : {Absent, Some([chain |-> Absent]), Some([chain |-> Some("sepolia")])},
          chain : {Absent, Some("base")},
          signer : Signers,
          index : {Absent} \cup {Some(n) : n \in 0..MaxIndex},
          key : {Absent, Some("my key")},
          name : {Absent, Some("My Name")},
          accountName : {Absent, Some("My Account")},
          accountKey : {Absent, Some("my account")},
          activeValidationModule : {Absent, Some("ownable module")},
          factoryAddress : {Absent, Some("0xFac2")},
          k1ValidatorAddress : {Absent, Some("0xVal2")},
          bundlerTransport : {Some(BundlerTransport)},
          transport : {Some(ExecutionTransport)},
          account : {Absent, Some(CallerAccount)},
          paymaster : {Absent, Some("paymaster client")},
          paymasterContext : {Absent, Some("sponsored")},
          userOperation : {Absent, Some("estimateFeesPerGas")}] :
     /\ (p.accountName = Absent) = (p.accountKey = Absent)
     /\ (p.paymaster = Absent) = (p.paymasterContext = Absent)}

NoParameters ==
  [client |-> Absent, chain |-> Absent, signer |-> "", index |-> Absent,
   key |-> Absent, name |-> Absent, accountName |-> Absent, accountKey |-> Absent,
   activeValidationModule |-> Absent, factoryAddress |-> Absent,
   k1ValidatorAddress |-> Absent, bundlerTransport |-> Absent, transport |-> Absent,
   account |-> Absent, paymaster |-> Absent, paymasterContext |-> Absent,
   userOperation |-> Absent]

\* A destructuring default: the property, or dflt when it is undefined.
OrDefault(x, dflt) == IF x = Absent THEN dflt ELSE x[1]

\* The chain taken from the parameters alone.
chainOfParametersOnly(p) == p.chain

\* chain = parameters.chain ?? client_?.chain
chainOf(p) ==
  IF p.chain # Absent THEN p.chain
  ELSE IF p.client # Absent THEN p.client[1].chain
  ELSE Absent

\* A call of toNexusAccount that leaves the index out.
toNexusAccountArgsWithoutIndex(p) ==
  [name |-> p.accountName,
   key |-> p.accountKey,
   transport |-> p.transport[1],
   chain |-> chainOf(p)[1],
   signer |-> p.signer,
   index |-> 0,
   activeValidationModule |-> p.activeValidationModule,
   factoryAddress |-> OrDefault(p.factoryAddress, "k1ValidatorFactory"),
   k1ValidatorAddress |-> OrDefault(p.k1ValidatorAddress, "k1Validator")]

\* The argument of toNexusAccount.
toNexusAccountArgs(p) ==
  [name |-> p.accountName,
   key |-> p.accountKey,
   transport |-> p.transport[1],
   chain |-> chainOf(p)[1],
   signer |-> p.signer,
   index |-> OrDefault(p.index, 0),
   activeValidationModule |-> p.activeValidationModule,
   factoryAddress |-> OrDefault(p.factoryAddress, "k1ValidatorFactory"),
   k1ValidatorAddress |-> OrDefault(p.k1ValidatorAddress, "k1Validator")]

HexChars ==
  <<"0", "1", "2", "3", "4", "5", "6", "7", "8", "9", "a", "b", "c", "d", "e", "f">>

\* The hex digit each deployment parameter contributes to the address: a
\* stand-in for the factory's hash, different parameters giving different
\* digits.
Digest(x) ==
  CASE x = "0xS1" -> "a"
    [] x = "0xS2" -> "b"
    [] x = "k1ValidatorFactory" -> "c"
    [] x = "0xFac2" -> "d"
    [] x = "k1Validator" -> "e"
    [] x = "0xVal2" -> "f"

ZeroPadding == [k \in 1..36 |-> "0"]

\* The counterfactual address: an Address computed from the deployment
\* parameters alone.
CounterFactualAddress(signerAddress, index, factoryAddress, validatorAddress) ==
  <<"0", "x">> \o ZeroPadding \o
  <<Digest(factoryAddress), Digest(validatorAddress), Digest(signerAddress),
    HexChars[index + 1]>>

\* computeNexusAddress: the address for a signer address, with the default
\* index and contracts where none are given.
computeNexusAddress(signerAddress, index, factoryAddress, validatorAddress) ==
  CounterFactualAddress(signerAddress,
                        OrDefault(index, 0),
                        OrDefault(factoryAddress, "k1ValidatorFactory"),
                        OrDefault(validatorAddress, "k1Validator"))

\* The account toNexusAccount builds from its argument.
toNexusAccount(a) ==
  Account(CounterFactualAddress(a.signer, a.index, a.factoryAddress,
                                a.k1ValidatorAddress),
          a.chain, a.signer, a.index)

\* The properties createNexusClient takes out of parameters by name.
DestructuredKeys ==
  {"client", "chain", "signer", "index", "key", "name", "accountName",
   "accountKey", "activeValidationModule", "factoryAddress",
   "k1ValidatorAddress", "bundlerTransport", "transport"}

\* ...bundlerConfig: the rest of parameters.
bundlerConfig(p) == [k \in DOMAIN p \ DestructuredKeys |-> p[k]]

\* The properties createNexusClient sets itself.
OwnProperties(p, account) ==
  [chain |-> chainOf(p),
   key |-> Some(OrDefault(p.key, "nexus client")),
   name |-> Some(OrDefault(p.name, "Nexus Client")),
   account |-> Some(account),
   transport |-> p.bundlerTransport]

\* The rest of the parameters spread last, over the client's own properties.
bundlerClientArgsSpreadLast(p, account) ==
  LET rest == bundlerConfig(p)
      own == OwnProperties(p, account)
  IN [k \in DOMAIN rest \cup DOMAIN own |->
        IF k \in DOMAIN rest THEN rest[k] ELSE own[k]]

\* The argument of createBicoBundlerClient: { ...bundlerConfig, chain, key,
\* name, account: nexusAccount, transport: bundlerTransport }.
bundlerClientArgs(p, account) ==
  LET rest == bundlerConfig(p)
      own == OwnProperties(p, account)
  IN [k \in DOMAIN rest \cup DOMAIN own |->
        IF k \in DOMAIN own THEN own[k] ELSE rest[k]]

\* createNexusClient up to the await of toNexusAccount.
createNexusClient(p) ==
  /\ npc = "idle"
  /\ nparams' = p
  /\ IF chainOf(p) = Absent
     THEN /\ npc' = "failed"
          /\ nerror' = "Missing chain"
          /\ UNCHANGED accountArgs
     ELSE /\ npc' = "toNexusAccount"
          /\ accountArgs' = Some(toNexusAccountArgs(p))
          /\ UNCHANGED nerror
  /\ UNCHANGED <<nexusAccount, bundlerArgs>>
  /\ UNCHANGED contractVars
  /\ UNCHANGED clientVars

\* toNexusAccount resolves: the bundler client is created and returned.
toNexusAccountResolves ==
  /\ npc = "toNexusAccount"
  /\ nexusAccount' = Some(toNexusAccount(accountArgs[1]))
  /\ bundlerArgs' = Some(bundlerClientArgs(nparams, toNexusAccount(accountArgs[1])))
  /\ npc' = "done"
  /\ UNCHANGED <<nparams, accountArgs, nerror>>
  /\ UNCHANGED contractVars
  /\ UNCHANGED clientVars

\* toNexusAccount rejects: createNexusClient rejects with the same error.
toNexusAccountRejects ==
  /\ npc = "toNexusAccount"
  /\ npc' = "failed"
  /\ nerror' = "toNexusAccount failed"
  /\ UNCHANGED <<nparams, accountArgs, nexusAccount, bundlerArgs>>
  /\ UNCHANGED contractVars
  /\ UNCHANGED clientVars

\* createNexusClient has not been called.
NexusIdle ==
  /\ npc = "idle"
  /\ nparams = NoParameters
  /\ accountArgs = Absent
  /\ nexusAccount = Absent
  /\ bundlerArgs = Absent
  /\ nerror = ""

ContractInit ==
  /\ req = NoRequest
  /\ reply = NoReply
  /\ decoded = NoNumbers
  /\ ops = [h \in Hashes |-> "unknown"]
  /\ receipts = [h \in Hashes |-> Absent]
  /\ overrideSeen = FALSE

ContractNext ==
  \/ \E m \in TriedMethods, params \in ParamTuples : Request(m, params)
  \/ \E r \in Replies(req) : Reply(r)
  \/ \E h \in Hashes, rc \in UserOpReceipt : Mine(h, rc)

ContractStart == ContractInit /\ ClientIdle /\ NexusIdle

ContractSpec == ContractStart /\ [][ContractNext]_vars

Init == ContractInit /\ ClientInit /\ NexusIdle

Next ==
  \/ \E i \in Callers, p \in UninstallModulesParameters : uninstallModules(i, p)
  \/ \E i \in Callers, resp \in SendUserOpResponses : Settle(i, resp)

Spec == Init /\ [][Next]_vars

\* One invocation of uninstallModules with a list of up to MaxBatch modules.
BatchNext ==
  \/ \E p \in BatchParameters : uninstallModules("c1", p)
  \/ \E resp \in SendUserOpResponses : Settle("c1", resp)

BatchSpec == Init /\ [][BatchNext]_vars

NexusNext ==
  \/ \E p \in NexusClientConfig : createNexusClient(p)
  \/ toNexusAccountResolves
  \/ toNexusAccountRejects

NexusSpec == ContractStart /\ [][NexusNext]_vars

\* ================================================================ claims
Issued == req.verdict = "issued"
Answered == reply.kind # "none"
IsNotFound(r) == r.kind = "result" /\ r.type = "null"

\* Whether the contract admits a not-found result as an answer to r.
NotFoundAdmitted(r) == \E x \in Replies(r) : IsNotFound(x)

\* C1: every request issued on the contract names one of the eight methods
\* and carries exactly the positional parameter tuple documented for it.
C1_ClosedMethodSet ==
  Issued =>
    LET m == req.method
        ps == req.params
    IN
    \/ /\ m = "eth_sendUserOperation"
       /\ Len(ps) = 2
       /\ ps[1].kind = "UserOperation" /\ ps[1].missing = {}
       /\ ps[2].kind = "EntryPoint"
    \/ /\ m = "eth_estimateUserOperationGas"
       /\ Len(ps) \in {2, 3}
       /\ ps[1].kind = "UserOperation"
       /\ ps[1].missing \subseteq
            {"callGasLimit", "preVerificationGas", "verificationGasLimit"}
       /\ ps[2].kind = "EntryPoint"
       /\ Len(ps) = 3 => ps[3].kind = "StateOverrides"
    \/ /\ m \in {"eth_supportedEntryPoints", "eth_chainId", "biconomy_getGasFeeValues"}
       /\ ps = <<>>
    \/ /\ m \in {"eth_getUserOperationByHash", "eth_getUserOperationReceipt",
                 "biconomy_getUserOperationStatus"}
       /\ Len(ps) = 1
       /\ ps[1].kind = "Hash"

C1_Witness ==
  /\ Issued
  /\ req.method = "eth_estimateUserOperationGas"
  /\ Len(req.params) = 3
  /\ req.params[3].kind = "StateOverrides"

\* C2: an estimate whose user operation lacks any subset of callGasLimit,
\* preVerificationGas and verificationGasLimit (its other fields present) is
\* not refused; a send whose user operation lacks any of the three is.
C2_EstimateAcceptsMissingGas ==
  /\ ( /\ req.method = "eth_estimateUserOperationGas"
       /\ Len(req.params) \in {2, 3}
       /\ req.params[1].kind = "UserOperation"
       /\ req.params[1].missing \subseteq
            {"callGasLimit", "preVerificationGas", "verificationGasLimit"}
       /\ req.params[2].kind = "EntryPoint"
       /\ Len(req.params) = 3 => req.params[3].kind = "StateOverrides" )
     => req.verdict = "issued"
  /\ ( /\ req.method = "eth_sendUserOperation"
       /\ Len(req.params) >= 1
       /\ req.params[1].kind = "UserOperation"
       /\ req.params[1].missing # {} )
     => req.verdict = "refused"

C2_Witness ==
  /\ Issued
  /\ req.method = "eth_estimateUserOperationGas"
  /\ req.params[1].missing =
       {"callGasLimit", "preVerificationGas", "verificationGasLimit"}

\* C3: a poll of eth_getUserOperationByHash or eth_getUserOperationReceipt
\* for a hash that was never submitted has a not-found result among its
\* answers, and every answer that is no error envelope is that result.
C3_NotFoundForUnknownHash ==
  ( /\ Issued
    /\ req.method \in {"eth_getUserOperationByHash", "eth_getUserOperationReceipt"}
    /\ ops[HashOf(req)] = "unknown"
    /\ Answered )
  => /\ NotFoundAdmitted(req)
     /\ reply.kind = "result" => IsNotFound(reply)

ReceiptsInPlay ==
  {receipts[h][1] : h \in {x \in Hashes : receipts[x] # Absent}}
  \cup (IF reply.kind = "result" /\ reply.type = "UserOpReceipt"
        THEN {reply.value} ELSE {})

Started(i) == pc[i] \in {"awaiting", "done"} /\ outcome[i].name # "AccountNotFoundError"

SameSenderAndNonce(i, j) ==
  /\ SenderOf(i) # Absent
  /\ SenderOf(i) = SenderOf(j)
  /\ call[i].nonce # Absent
  /\ call[i].nonce = call[j].nonce

\* C6: when two invocations submit with the same (sender, nonce), both
\* requests are in the sent log, one for each, whatever the interleaving.
C6_BothRequestsIssued ==
  \A i, j \in Callers :
    (i # j /\ Started(i) /\ Started(j) /\ SameSenderAndNonce(i, j)) =>
      /\ Cardinality(SentBy(i)) = 1
      /\ Cardinality(SentBy(j)) = 1
      /\ \A k \in SentBy(i) \cup SentBy(j) :
           /\ Some(sent[k].account) = SenderOf(i)
           /\ sent[k].nonce = call[i].nonce

C6_Witness ==
  /\ Started("c1") /\ Started("c2")
  /\ SameSenderAndNonce("c1", "c2")
  /\ Len(sent) = 2
  /\ sent[1].caller = "c2"
  /\ pc["c1"] = "awaiting" /\ pc["c2"] = "awaiting"

\* C7: an invocation causes at most one request; after a transport failure
\* or an error envelope it has issued exactly the one, and it ends in an
\* error.
C7_NoLocalRecovery ==
  \A i \in Callers :
    /\ Cardinality(SentBy(i)) <= 1
    /\ response[i].kind \in {"error", "transportFailure"} =>
         /\ Cardinality(SentBy(i)) = 1
         /\ pc[i] = "done"
         /\ outcome[i].kind = "rejected"

C7_Witness ==
  \E i \in Callers :
    /\ response[i].kind = "transportFailure"
    /\ outcome[i].kind = "rejected"
    /\ Cardinality(SentBy(i)) = 1
    /\ pc[i] = "done"

\* C8: a request that carries a StateOverride is an estimate; a submission
\* carries none, also after an estimate with a StateOverride was issued.
C8_OverrideOnlyOnEstimate ==
  Issued =>
    /\ CarriesOverride(req.params) => req.method = "eth_estimateUserOperationGas"
    /\ req.method = "eth_sendUserOperation" =>
         /\ Len(req.params) = 2
         /\ ~CarriesOverride(req.params)

C8_Witness ==
  /\ overrideSeen
  /\ Issued
  /\ req.method = "eth_sendUserOperation"
  /\ ~CarriesOverride(req.params)

\* C9: a poll of eth_getUserOperationReceipt for a submitted hash that is
\* not yet mined has a not-found result among its answers and is answered
\* by no other result; a receipt a poll returns is the one created when the
\* operation was mined.
C9_ReceiptAbsentUntilMined ==
  ( /\ Issued
    /\ req.method = "eth_getUserOperationReceipt"
    /\ Answered )
  => /\ ops[HashOf(req)] = "pending" =>
          /\ NotFoundAdmitted(req)
          /\ reply.kind = "result" => IsNotFound(reply)
     /\ (reply.kind = "result" /\ reply.type = "UserOpReceipt") =>
          /\ ops[HashOf(req)] = "mined"
          /\ receipts[HashOf(req)] = Some(reply.value)

IsDecimalString(s) ==
  s # <<>> /\ \A i \in 1..Len(s) :
    s[i] \in {"0", "1", "2", "3", "4", "5", "6", "7", "8", "9"}

C12_AccountResolution ==
  \A i \in Callers :
    pc[i] # "idle" =>
      /\ (call[i].account = Absent /\ clientAccount = Absent) =>
           /\ pc[i] = "done"
           /\ outcome[i].kind = "rejected"
           /\ outcome[i].name = "AccountNotFoundError"
           /\ SentBy(i) = {}
           /\ response[i].kind = "none"
      /\ call[i].account # Absent =>
           /\ Cardinality(SentBy(i)) = 1
           /\ \A k \in SentBy(i) : Some(sent[k].account) = call[i].account
      /\ (call[i].account = Absent /\ clientAccount # Absent) =>
           /\ Cardinality(SentBy(i)) = 1
           /\ \A k \in SentBy(i) : Some(sent[k].account) = clientAccount

C12_Witness ==
  /\ clientAccount = Absent
  /\ pc["c1"] = "done"
  /\ call["c1"].account = Absent
  /\ outcome["c1"].name = "AccountNotFoundError"
  /\ pc["c2"] = "awaiting"
  /\ call["c2"].account = Some("0xA1")
  /\ Len(sent) = 1

\* C14: an invocation that has an account sends exactly one user operation;
\* its calls are as many as the modules and in their order, each to the
\* account's own address with value 0 and the module's data, "0x" when it
\* has none, as deInitData; maxFeePerGas, maxPriorityFeePerGas and nonce are
\* the caller's; an empty list of modules sends an operation with no calls.
C14_OneOperationPerBatch ==
  \A i \in Callers :
    (pc[i] # "idle" /\ SenderOf(i) # Absent) =>
      /\ Cardinality(SentBy(i)) = 1
      /\ \A k \in SentBy(i) :
           LET op == sent[k]
               ms == call[i].modules
           IN
           /\ Some(op.account) = SenderOf(i)
           /\ Len(op.calls) = Len(ms)
           /\ \A j \in 1..Len(ms) :
                /\ Some(op.calls[j].to) = SenderOf(i)
                /\ op.calls[j].value = 0
                /\ op.calls[j].data.functionName = "uninstallModule"
                /\ op.calls[j].data.args[1] =
                     (IF ms[j].type = "validator" THEN 1 ELSE 2)
                /\ op.calls[j].data.args[2] =
                     (IF ms[j].address = "0xab01" THEN "0xAb01" ELSE "0xCD02")
                /\ op.calls[j].data.args[3] =
                     (IF ms[j].data = Absent THEN "0x" ELSE ms[j].data[1])
           /\ op.maxFeePerGas = call[i].maxFeePerGas
           /\ op.maxPriorityFeePerGas = call[i].maxPriorityFeePerGas
           /\ op.nonce = call[i].nonce

C14_Witness ==
  /\ pc["c1"] = "done"
  /\ outcome["c1"].kind = "resolved"
  /\ Len(call["c1"].modules) = 2
  /\ call["c1"].modules[1].type = "executor"
  /\ call["c1"].modules[2].type = "validator"
  /\ Len(sent) = 1
  /\ Len(sent[1].calls) = 2
  /\ sent[1].calls[1].data.args[3] = "0xdead"
  /\ sent[1].calls[2].data.args[3] = "0x"
  /\ sent[1].maxFeePerGas = Some(2)

\* ---------------------------------------------------------------- C13
\* The parameter is undefined or the default itself.
IsDefault(x, dflt) == x = Absent \/ x = Some(dflt)

\* A 20-byte 0x-prefixed hex string.
IsAddress(a) ==
  /\ Len(a) = 42
  /\ a[1] = "0" /\ a[2] = "x"
  /\ \A k \in 3..42 : \E d \in 1..16 : a[k] = HexChars[d]

Chainless(p) ==
  /\ p.chain = Absent
  /\ p.client = Absent \/ p.client[1].chain = Absent

\* Only the client carries a chain.
ChainFromClient(p) ==
  /\ p.chain = Absent
  /\ p.client # Absent
  /\ p.client[1].chain # Absent

\* C15: createNexusClient fails with "Missing chain" exactly when neither
\* parameters.chain nor parameters.client.chain is set, and then no account
\* has been constructed and no bundler client created; when only the client
\* carries a chain, that chain goes to the account and to the bundler client.
C15_MissingChain ==
  /\ (npc # "idle" /\ Chainless(nparams)) =>
       /\ npc = "failed"
       /\ nerror = "Missing chain"
       /\ accountArgs = Absent
       /\ nexusAccount = Absent
       /\ bundlerArgs = Absent
  /\ nerror = "Missing chain" => Chainless(nparams)
  /\ (npc # "idle" /\ ChainFromClient(nparams)) =>
       /\ nerror # "Missing chain"
       /\ accountArgs # Absent
       /\ accountArgs[1].chain = nparams.client[1].chain[1]
       /\ npc = "done" =>
            /\ nexusAccount[1].chain = nparams.client[1].chain[1]
            /\ bundlerArgs[1].chain = nparams.client[1].chain

C15_Witness ==
  /\ npc = "failed"
  /\ nerror = "Missing chain"
  /\ nparams.client = Some([chain |-> Absent])
  /\ nparams.chain = Absent
  /\ accountArgs = Absent
  /\ bundlerArgs = Absent

\* ---------------------------------------------------------------- C16
\* C16: the bundler client is built on bundlerTransport, never on the
\* execution transport, with the Nexus account just built; key and name
\* default to "nexus client" and "Nexus Client" and index to 0; paymaster,
\* paymasterContext and userOperation reach the bundler client unchanged; an
\* account in the configuration is overridden by the Nexus account and the
\* client of the configuration is not forwarded.
C16_BundlerClientArguments ==
  npc = "done" =>
    LET b == bundlerArgs[1]
    IN /\ b.transport = nparams.bundlerTransport
       /\ b.transport # nparams.transport
       /\ b.account = nexusAccount
       /\ b.account # Some(CallerAccount)
       /\ b.account[1].signer = nparams.signer
       /\ b.key = (IF nparams.key = Absent THEN Some("nexus client") ELSE nparams.key)
       /\ b.name = (IF nparams.name = Absent THEN Some("Nexus Client") ELSE nparams.name)
       /\ accountArgs[1].index = (IF nparams.index = Absent THEN 0 ELSE nparams.index[1])
       /\ b.account[1].index = accountArgs[1].index
       /\ b.paymaster = nparams.paymaster
       /\ b.paymasterContext = nparams.paymasterContext
       /\ b.userOperation = nparams.userOperation
       /\ "client" \notin DOMAIN b
       /\ "bundlerTransport" \notin DOMAIN b

C16_Witness ==
  /\ npc = "done"
  /\ nparams.account = Some(CallerAccount)
  /\ nparams.client # Absent
  /\ nparams.key = Absent
  /\ nparams.name = Absent
  /\ nparams.index = Absent
  /\ nparams.paymaster # Absent
  /\ nparams.userOperation # Absent
  /\ bundlerArgs[1].account = nexusAccount
  /\ bundlerArgs[1].paymaster = nparams.paymaster

====
